---- MODULE Spec2Model ----
(***************************************************************************)
(* Model of the Modbus RTU client serving loop (main.cpp) and of           *)
(* Client::handle_request (Modbus_RTU_Client.cpp): receive a request, wait *)
(* for the named semaphore, let libmodbus generate the reply on the shared *)
(* register mapping, post the semaphore.                                   *)
(*                                                                         *)
(* Every serving process is one element of Procs.  Spec runs one serving   *)
(* process next to a cooperating process that takes and gives the same     *)
(* named semaphore; SpecPair runs two serving processes that were started  *)
(* with the same semaphore name.                                           *)
(***************************************************************************)
EXTENDS Integers, FiniteSets, Sequences, TLC

\* ---- program constants (Modbus_RTU_Client.cpp:21-28, sysexits.h) --------
SEMAPHORE_ERROR_INC == 10
SEMAPHORE_ERROR_DEC == 1
SEMAPHORE_ERROR_MAX == 1000
SEMAPHORE_INITIAL_VALUE == 1
EX_OK == 0
\* main.cpp:240-255 (0x10000) and the exit codes main returns
MAX_REGS == 65536
EX_USAGE == 64
EX_SOFTWARE == 70
EX_OSERR == 71

\* ---- bounds of the model -------------------------------------------------
\* requests with rc > 0 the bus master sends to a process of Spec
MaxRequests == 110
\* the bus master stops sending once a process acquired the semaphore so often
MaxAcquired == 3
\* requests with rc > 0 the bus master sends to each process of SpecPair
MaxPairRequests == 3
\* termination signals delivered to one process
MaxSignals == 2
\* requests with rc > 0 the bus master sends to the process of SpecLive
MaxLiveRequests == 3
\* requests with rc > 0 the bus master sends to the process of SpecClient
MaxClientRequests == 2
\* calls of Client::enable_semaphore made on one client
MaxEnableCalls == 3

Procs == {1, 2}

\* results of modbus_receive as handle_request tells them apart
RC_REQUEST == "rc>0"
RC_IGNORED == "rc=0"
RC_ECONNRESET == "rc=-1,ECONNRESET"
RC_ERROR == "rc=-1,other"
ReceiveResults == {RC_REQUEST, RC_IGNORED, RC_ECONNRESET, RC_ERROR}

VARIABLES
    semval,                   \* value of the named semaphore
    foreign,                  \* a cooperating process holds the semaphore
    semaphore,                \* [p]: Client::semaphore is set
    is_acquired,              \* [p]: semaphore->is_acquired()
    semaphore_error_counter,  \* [p]: Client::semaphore_error_counter
    pc,                       \* [p]: position in main / handle_request
    rc,                       \* [p]: what the last modbus_receive returned
    terminate,                \* [p]: static volatile bool terminate
    connection_closed,        \* [p]: main's connection_closed
    closes,                   \* [p]: close() calls made on the modbus socket
    signals,                  \* [p]: termination signals delivered
    exit_code,                \* [p]: value main returned, -1 while running
    thrown,                   \* [p]: exception handle_request threw, if any
    waitres,                  \* [p]: outcome of semaphore->wait for this request
    reported,                 \* [p]: e.what() lines printed by the loop
    reply_failed,             \* [p]: some modbus_reply call returned -1
    requests,                 \* [p]: requests received (rc > 0)
    timeouts,                 \* [p]: timed-out semaphore waits
    acquired,                 \* [p]: successful semaphore waits
    replies,                  \* [p]: modbus_reply calls
    posts,                    \* [p]: semaphore posts
    wait_limit,               \* [p]: time limit of the last semaphore wait, in ns
    bank,                     \* [p]: --do/di/ao/ai-registers as given
    opt_semaphore,            \* [p]: --semaphore was given
    shm,                      \* [p]: the shared memory mapping of main exists
    mapping_arg,              \* [p]: mapping argument of Client::Client
    modbus,                   \* [p]: Client::modbus ("null", "alive", "freed")
    mapping,                  \* [p]: Client::mapping ("null", "own", "given")
    delete_mapping,           \* [p]: Client::delete_mapping
    connected,                \* [p]: modbus_connect succeeded
    mapping_frees,            \* [p]: modbus_mapping_free calls on the mapping
    enable_calls,             \* [p]: calls of Client::enable_semaphore
    enable_succ,              \* [p]: calls of it that created a semaphore
    enable_error,             \* [p]: what the last call of it threw
    opt_timeout,              \* [p]: --response-timeout was given
    timeout_arg,              \* [p]: the timeout in seconds, a double
    native,                   \* [p]: <<timeout_t>> held by the modbus context
    timeout_got               \* [p]: <<double>> get_response_timeout returned

vars == <<semval, foreign, semaphore, is_acquired, semaphore_error_counter, pc,
          rc, terminate, connection_closed, closes, signals, exit_code, thrown,
          waitres, reported, reply_failed, requests, timeouts, acquired, replies, posts,
          wait_limit,
          bank, opt_semaphore, shm, mapping_arg, modbus, mapping, delete_mapping,
          connected, mapping_frees, enable_calls, enable_succ, enable_error,
          opt_timeout, timeout_arg, native, timeout_got>>

sharedVars == <<semval, foreign>>
mainVars == <<terminate, connection_closed, closes, signals, exit_code, reported>>
histVars == <<rc, reply_failed, requests, timeouts, acquired, replies, posts,
              wait_limit>>
startVars == <<bank, opt_semaphore, shm, mapping_arg, mapping, delete_mapping,
               connected, enable_calls, enable_succ, enable_error>>
dtorVars == <<modbus, mapping_frees>>
timeoutVars == <<opt_timeout, timeout_arg, native, timeout_got>>
loopVars == <<semval, foreign, is_acquired, semaphore_error_counter, rc,
              terminate, connection_closed, signals, thrown, waitres, reported,
              reply_failed, requests, timeouts, acquired, replies, posts,
              wait_limit>>


\* ---- timeouts: Modbus_RTU_Client.cpp:144-204 ------------------------------
\* A uint32_t is [hi, lo], two 16 bit halves. A double t >= 0 is [hi, lo, frac]:
\* hi * 2^16 + lo whole seconds (hi is not limited) and frac ticks, SubMicro
\* ticks to the microsecond.
LimbBase == 65536

MicrosPerSecond == 1000000

\* ticks per microsecond
SubMicro == 4

TicksPerSecond == MicrosPerSecond * SubMicro

U32(h, l) == [hi |-> h, lo |-> l]

UINT32_MAX == U32(LimbBase - 1, LimbBase - 1)

Whole(t) == [hi |-> t.hi, lo |-> t.lo]

\* a - b in whole seconds, for a >= b
SubWhole(a, b) ==
    LET l == a.lo - b.lo IN
    IF l >= 0 THEN [hi |-> a.hi - b.hi, lo |-> l]
    ELSE [hi |-> a.hi - b.hi - 1, lo |-> l + LimbBase]

\* d seconds and u microseconds are less than 2^32 microseconds
\* (2^32 = 4294 * 10^6 + 967296)
MicrosFit(d, u) ==
    d.hi = 0 /\ (d.lo < 4294 \/ (d.lo = 4294 /\ u <= 967295))

\* (d * 10^6 + u) mod 2^32, with 10^6 = 15 * 2^16 + 16960
MicrosMod(d, u) ==
    LET low  == d.lo * 16960 + u
        high == (low \div LimbBase) + d.lo * 15 + (d.hi % LimbBase) * 16960
    IN  U32(high % LimbBase, low % LimbBase)

\* static_cast<uint32_t> of a double: its integer part if that fits; undefined
\* otherwise, where builds give the low 32 bits, 0 or 0xFFFFFFFF
CastOutcomes(fits, value) ==
    IF fits THEN {value} ELSE {value, U32(0, 0), UINT32_MAX}

\* faulty variant: rounds to the nearest microsecond
RoundToMicros(f) == (2 * f + SubMicro) \div (2 * SubMicro)

\* line 155: the cast truncates
TruncToMicros(f) == f \div SubMicro

\* lines 149-158
double_to_timeout_t(timeout) ==
    UNION {
        LET fractional == SubWhole(Whole(timeout), sec)
            u          == TruncToMicros(timeout.frac)
        IN  { [sec |-> sec, usec |-> usec] :
                usec \in CastOutcomes(MicrosFit(fractional, u),
                                      MicrosMod(fractional, u)) } :
        sec \in CastOutcomes(timeout.hi < LimbBase,
                             U32(timeout.hi % LimbBase, timeout.lo)) }

\* line 203: sec + usec / 10^6, with usec = 64 * q + usec.lo % 64 and
\* 10^6 = 64 * 15625
get_response_timeout(T) ==
    LET q == T.usec.hi * 1024 + (T.usec.lo \div 64)
        r == (q % 15625) * 64 + (T.usec.lo % 64)
        l == T.sec.lo + (q \div 15625)
    IN  [hi |-> T.sec.hi + (l \div LimbBase), lo |-> l % LimbBase,
         frac |-> r * SubMicro]

\* timeouts tried
TimeoutInputs ==
    [hi : {0, 1, LimbBase - 1, LimbBase},
     lo : {0, 1, LimbBase - 1},
     frac : {0, 1, SubMicro - 1, SubMicro, SubMicro + 1,
             (MicrosPerSecond \div 2) * SubMicro + (SubMicro \div 2),
             (MicrosPerSecond - 1) * SubMicro, TicksPerSecond - 1}]

\* 1.5 s
DefaultTimeout == [hi |-> 0, lo |-> 1, frac |-> TicksPerSecond \div 2]

\* whether --response-timeout is given, and its value
TimeoutOption(opt, t) ==
    /\ opt_timeout = [p \in Procs |-> p = 1 /\ opt]
    /\ timeout_arg = [p \in Procs |-> t]
    /\ native = [p \in Procs |-> << >>]
    /\ timeout_got = [p \in Procs |-> << >>]

\* ---- state after construction: main.cpp:342-367 --------------------------
\* running: the processes that reached the main loop; cfg: which of them
\* were started with --semaphore.  main hands its shared memory mapping to
\* the client (main.cpp:333); the register counts are the defaults.
InitWith(running, cfg) ==
    /\ bank = [p \in Procs |-> [do |-> MAX_REGS, di |-> MAX_REGS,
                                 ao |-> MAX_REGS, ai |-> MAX_REGS]]
    /\ opt_semaphore = cfg
    /\ shm = [p \in Procs |-> p \in running]
    /\ mapping_arg = [p \in Procs |-> "given"]
    /\ modbus = [p \in Procs |-> IF p \in running THEN "alive" ELSE "null"]
    /\ mapping = [p \in Procs |-> IF p \in running THEN "given" ELSE "null"]
    /\ delete_mapping = [p \in Procs |-> FALSE]
    /\ connected = [p \in Procs |-> p \in running]
    /\ mapping_frees = [p \in Procs |-> 0]
    /\ enable_calls = [p \in Procs |-> IF cfg[p] THEN 1 ELSE 0]
    /\ enable_succ = [p \in Procs |-> IF cfg[p] THEN 1 ELSE 0]
    /\ enable_error = [p \in Procs |-> "none"]
    /\ TimeoutOption(FALSE, DefaultTimeout)
    /\ semval = SEMAPHORE_INITIAL_VALUE
    /\ foreign = FALSE
    /\ semaphore = cfg
    /\ is_acquired = [p \in Procs |-> FALSE]
    /\ semaphore_error_counter = [p \in Procs |-> 0]
    /\ pc = [p \in Procs |-> IF p \in running THEN "loop" ELSE "off"]
    /\ rc = [p \in Procs |-> "none"]
    /\ terminate = [p \in Procs |-> FALSE]
    /\ connection_closed = [p \in Procs |-> FALSE]
    /\ closes = [p \in Procs |-> 0]
    /\ signals = [p \in Procs |-> 0]
    /\ exit_code = [p \in Procs |-> -1]
    /\ thrown = [p \in Procs |-> "none"]
    /\ waitres = [p \in Procs |-> "none"]
    /\ reported = [p \in Procs |-> 0]
    /\ reply_failed = [p \in Procs |-> FALSE]
    /\ requests = [p \in Procs |-> 0]
    /\ timeouts = [p \in Procs |-> 0]
    /\ acquired = [p \in Procs |-> 0]
    /\ replies = [p \in Procs |-> 0]
    /\ posts = [p \in Procs |-> 0]
    /\ wait_limit = [p \in Procs |-> 0]

Init ==
    \E s \in BOOLEAN : InitWith({1}, [p \in Procs |-> p = 1 /\ s])

InitPair ==
    InitWith(Procs, [p \in Procs |-> TRUE])

\* register counts tried on the command line
BankSizes == {0, MAX_REGS, MAX_REGS + 1}

Banks == [do : BankSizes, di : BankSizes, ao : BankSizes, ai : BankSizes]

DefaultBanks == [do |-> MAX_REGS, di |-> MAX_REGS, ao |-> MAX_REGS, ai |-> MAX_REGS]

\* Process 1 at position at of main before its client exists; b, opt, arg:
\* its register counts, whether --semaphore is given, the mapping argument the
\* client will be constructed with, whether --response-timeout is given, and
\* its value.
InitBefore(at, b, opt, arg, topt, t) ==
    /\ semval = SEMAPHORE_INITIAL_VALUE
    /\ foreign = FALSE
    /\ semaphore = [p \in Procs |-> FALSE]
    /\ is_acquired = [p \in Procs |-> FALSE]
    /\ semaphore_error_counter = [p \in Procs |-> 0]
    /\ pc = [p \in Procs |-> IF p = 1 THEN at ELSE "off"]
    /\ rc = [p \in Procs |-> "none"]
    /\ terminate = [p \in Procs |-> FALSE]
    /\ connection_closed = [p \in Procs |-> FALSE]
    /\ closes = [p \in Procs |-> 0]
    /\ signals = [p \in Procs |-> 0]
    /\ exit_code = [p \in Procs |-> -1]
    /\ thrown = [p \in Procs |-> "none"]
    /\ waitres = [p \in Procs |-> "none"]
    /\ reported = [p \in Procs |-> 0]
    /\ reply_failed = [p \in Procs |-> FALSE]
    /\ requests = [p \in Procs |-> 0]
    /\ timeouts = [p \in Procs |-> 0]
    /\ acquired = [p \in Procs |-> 0]
    /\ replies = [p \in Procs |-> 0]
    /\ posts = [p \in Procs |-> 0]
    /\ wait_limit = [p \in Procs |-> 0]
    /\ bank = [p \in Procs |-> IF p = 1 THEN b ELSE DefaultBanks]
    /\ opt_semaphore = [p \in Procs |-> p = 1 /\ opt]
    /\ shm = [p \in Procs |-> p = 1 /\ at = "client" /\ arg = "given"]
    /\ mapping_arg = [p \in Procs |-> IF p = 1 THEN arg ELSE "given"]
    /\ modbus = [p \in Procs |-> "null"]
    /\ mapping = [p \in Procs |-> "null"]
    /\ delete_mapping = [p \in Procs |-> FALSE]
    /\ connected = [p \in Procs |-> FALSE]
    /\ mapping_frees = [p \in Procs |-> 0]
    /\ enable_calls = [p \in Procs |-> 0]
    /\ enable_succ = [p \in Procs |-> 0]
    /\ enable_error = [p \in Procs |-> "none"]
    /\ TimeoutOption(topt, t)

\* main from its argument checks on (main.cpp:239)
InitStartup ==
    \E b \in Banks, opt \in BOOLEAN, topt \in BOOLEAN :
        InitBefore("args", b, opt, "given", topt, DefaultTimeout)

\* a caller about to construct a Client, with the mapping of main or with the
\* default argument nullptr (Modbus_RTU_Client.hpp:43)
InitClient ==
    \E opt \in BOOLEAN, arg \in {"nullptr", "given"}, topt \in BOOLEAN :
        InitBefore("client", DefaultBanks, opt, arg, topt, DefaultTimeout)

\* a caller about to construct a Client and to set its response timeout
InitTimeout ==
    \E t \in TimeoutInputs :
        InitBefore("client", DefaultBanks, FALSE, "given", TRUE, t)

\* faulty variant: the loop condition does not look at terminate
ContinuesIgnoringTerminate(term, closed) == ~closed

\* main.cpp:368: the loop condition
Continues(term, closed) == ~term /\ ~closed

\* ---- main loop head: while (!terminate && !connection_closed) -----------
LoopHead(p) ==
    /\ pc[p] = "loop"
    /\ UNCHANGED <<startVars, dtorVars, timeoutVars>>
    /\ pc' = [pc EXCEPT ![p] = IF Continues(terminate[p], connection_closed[p])
                                 THEN "receive" ELSE "after"]
    /\ UNCHANGED <<sharedVars, semaphore, is_acquired, semaphore_error_counter,
                   mainVars, thrown, waitres, histVars>>

\* ---- Client::handle_request, Modbus_RTU_Client.cpp:111-142 ---------------
\* What modbus_receive can return.  Once the signal handler closed the
\* descriptor every call fails with EBADF.
ReceiveOutcomes(p, limit) ==
    IF closes[p] > 0
    THEN {RC_ERROR}
    ELSE {RC_IGNORED, RC_ECONNRESET, RC_ERROR}
         \cup (IF requests[p] < limit /\ acquired[p] < MaxAcquired
               THEN {RC_REQUEST} ELSE {})

\* faulty variant: rc >= 0 instead of rc > 0, a frame without reply is served
ReceiveBranchZeroServed(r, sem) ==
    CASE r \in {RC_REQUEST, RC_IGNORED} -> IF sem THEN "wait" ELSE "reply"
      [] r = RC_ECONNRESET -> "true"
      [] r = RC_ERROR -> "throw"
      [] OTHER -> "false"

\* faulty variant: the request is served without waiting for the semaphore
ReceiveBranchNoWait(r, sem) ==
    CASE r = RC_REQUEST -> "reply"
      [] r = RC_ECONNRESET -> "true"
      [] r = RC_ERROR -> "throw"
      [] OTHER -> "false"

\* faulty variant: errno is not looked at, ECONNRESET throws like any other error
ReceiveBranchNoErrno(r, sem) ==
    CASE r = RC_REQUEST -> IF sem THEN "wait" ELSE "reply"
      [] r \in {RC_ECONNRESET, RC_ERROR} -> "throw"
      [] OTHER -> "false"

\* Where handle_request goes with the result of modbus_receive (lines 116,
\* 134-141): "wait"/"reply" serve the request, "true"/"false" are its return
\* values, "throw" is the runtime_error of line 138.
ReceiveBranch(r, sem) ==
    CASE r = RC_REQUEST -> IF sem THEN "wait" ELSE "reply"
      [] r = RC_ECONNRESET -> "true"
      [] r = RC_ERROR -> "throw"
      [] OTHER -> "false"

Receive(p, limit) ==
    /\ pc[p] = "receive"
    /\ UNCHANGED <<startVars, dtorVars, timeoutVars>>
    /\ \E rc_ \in ReceiveOutcomes(p, limit) :
         LET b == ReceiveBranch(rc_, semaphore[p]) IN
         /\ pc' = [pc EXCEPT ![p] = CASE b = "throw" -> "catch"
                                      [] b \in {"true", "false"} -> "loop"
                                      [] OTHER -> b]
         /\ connection_closed' = [connection_closed EXCEPT ![p] = (b = "true")]
         /\ thrown' = [thrown EXCEPT ![p] = IF b = "throw" THEN "receive" ELSE @]
         /\ requests' = [requests EXCEPT ![p] = IF rc_ = RC_REQUEST THEN @ + 1 ELSE @]
         /\ waitres' = [waitres EXCEPT ![p] = "none"]
         /\ rc' = [rc EXCEPT ![p] = rc_]
    /\ UNCHANGED <<sharedVars, semaphore, is_acquired, semaphore_error_counter,
                   terminate, closes, signals, exit_code, reported,
                   reply_failed, timeouts, acquired, replies, posts,
                   wait_limit>>

\* faulty variant: a timeout counts twice
CounterAfterTimeoutTwice(c) == c + 2 * SEMAPHORE_ERROR_INC

\* lines 123 and 128-129
CounterAfterTimeout(c) == c + SEMAPHORE_ERROR_INC

CounterAfterAcquire(c) ==
    IF c - SEMAPHORE_ERROR_DEC < 0 THEN 0 ELSE c - SEMAPHORE_ERROR_DEC

\* faulty variant: the comparison with the maximum is strict
EscalatesStrict(c) == c > SEMAPHORE_ERROR_MAX

\* line 125
Escalates(c) == c >= SEMAPHORE_ERROR_MAX

\* faulty variant: the exception is never thrown
AfterTimeoutNoThrow(c) == "reply"

\* faulty variant: a timed-out wait ends the call without a reply
AfterTimeoutNoReply(c) == IF Escalates(c) THEN "catch" ELSE "loop"

\* lines 125-132: after a timed-out wait the request is served unless the
\* counter escalates, which throws
AfterTimeout(c) == IF Escalates(c) THEN "catch" ELSE "reply"

\* line 19: struct timespec {tv_sec, tv_nsec}
SEMAPHORE_MAX_TIME == [tv_sec |-> 0, tv_nsec |-> 100000]

\* a timespec in nanoseconds
TimespecNanos(ts) == ts.tv_sec * 1000000000 + ts.tv_nsec

\* faulty variant: a wait without a time limit, which returns only with the
\* semaphore
WaitReturnsOnlyAcquired(val) == val > 0

\* line 119: the wait is given a time limit, so it returns whatever the value
\* of the semaphore is
WaitReturns(val) == TRUE

\* lines 118-131: semaphore->wait(SEMAPHORE_MAX_TIME) takes the semaphore if
\* its value is positive within the wait and times out otherwise.
Wait(p) ==
    /\ pc[p] = "wait"
    /\ WaitReturns(semval)
    /\ UNCHANGED <<startVars, dtorVars, timeoutVars>>
    /\ IF semval > 0
       THEN /\ semval' = semval - 1
            /\ is_acquired' = [is_acquired EXCEPT ![p] = TRUE]
            /\ semaphore_error_counter' =
                 [semaphore_error_counter EXCEPT ![p] = CounterAfterAcquire(@)]
            /\ acquired' = [acquired EXCEPT ![p] = @ + 1]
            /\ waitres' = [waitres EXCEPT ![p] = "acquired"]
            /\ pc' = [pc EXCEPT ![p] = "reply"]
            /\ UNCHANGED <<timeouts, thrown>>
       ELSE LET c == CounterAfterTimeout(semaphore_error_counter[p]) IN
            /\ semaphore_error_counter' = [semaphore_error_counter EXCEPT ![p] = c]
            /\ timeouts' = [timeouts EXCEPT ![p] = @ + 1]
            /\ waitres' = [waitres EXCEPT ![p] = "timedout"]
            /\ thrown' = [thrown EXCEPT ![p] =
                            IF AfterTimeout(c) = "catch" THEN "semaphore" ELSE @]
            /\ pc' = [pc EXCEPT ![p] = AfterTimeout(c)]
            /\ UNCHANGED <<semval, is_acquired, acquired>>
    /\ wait_limit' = [wait_limit EXCEPT ![p] = TimespecNanos(SEMAPHORE_MAX_TIME)]
    /\ UNCHANGED <<foreign, semaphore, mainVars, rc, reply_failed, requests,
                   replies, posts>>

\* line 132: modbus_reply; its return value is dropped.  Sending on a
\* descriptor the signal handler closed fails.
ReplyResults(p) == IF closes[p] > 0 THEN {FALSE} ELSE {TRUE, FALSE}

Reply(p) ==
    /\ pc[p] = "reply"
    /\ UNCHANGED <<startVars, dtorVars, timeoutVars>>
    /\ \E ok \in ReplyResults(p) :
         reply_failed' = [reply_failed EXCEPT ![p] = @ \/ ~ok]
    /\ replies' = [replies EXCEPT ![p] = @ + 1]
    /\ pc' = [pc EXCEPT ![p] = "post"]
    /\ UNCHANGED <<sharedVars, semaphore, is_acquired, semaphore_error_counter,
                   mainVars, thrown, waitres, rc, requests, timeouts, acquired,
                   posts, wait_limit>>

\* faulty variant: posted without asking is_acquired()
PostsSemaphoreUnchecked(sem, acq) == sem

\* faulty variant: the post is left out
PostsSemaphoreNever(sem, acq) == FALSE

\* line 133: the condition under which the semaphore is posted
PostsSemaphore(sem, acq) == sem /\ acq

\* lines 133 and 141
Post(p) ==
    /\ pc[p] = "post"
    /\ UNCHANGED <<startVars, dtorVars, timeoutVars>>
    /\ IF PostsSemaphore(semaphore[p], is_acquired[p])
       THEN /\ semval' = semval + 1
            /\ is_acquired' = [is_acquired EXCEPT ![p] = FALSE]
            /\ posts' = [posts EXCEPT ![p] = @ + 1]
       ELSE UNCHANGED <<semval, is_acquired, posts>>
    /\ pc' = [pc EXCEPT ![p] = "loop"]
    /\ connection_closed' = [connection_closed EXCEPT ![p] = FALSE]
    /\ UNCHANGED <<foreign, semaphore, semaphore_error_counter, terminate,
                   closes, signals, exit_code, reported, thrown, waitres, rc,
                   reply_failed, requests, timeouts, acquired, replies,
                   wait_limit>>

\* faulty variant: e.what() is printed whatever the flag says
ReportsErrorAlways(term) == TRUE

\* main.cpp:373: if (!terminate) std::cerr << e.what()
ReportsError(term) == ~term

\* ---- main.cpp:371-375: catch (const std::runtime_error &) ----------------
Catch(p) ==
    /\ pc[p] = "catch"
    /\ UNCHANGED <<startVars, dtorVars, timeoutVars>>
    /\ reported' = [reported EXCEPT ![p] = IF ReportsError(terminate[p]) THEN @ + 1 ELSE @]
    /\ pc' = [pc EXCEPT ![p] = "after"]
    /\ UNCHANGED <<sharedVars, semaphore, is_acquired, semaphore_error_counter,
                   terminate, connection_closed, closes, signals, exit_code,
                   thrown, waitres, histVars>>

\* value main returns after the loop (main.cpp:378-381: no return statement)
MainReturn(exc, closed) == EX_OK

\* Modbus_RTU_Client.cpp:95: the condition under which the mapping is freed
FreesMapping(m, own) == m # "null" /\ own

\* Modbus_RTU_Client.cpp:90-96: Client::~Client
ClientDtor(p) ==
    /\ closes' = [closes EXCEPT ![p] = IF modbus[p] # "null" THEN @ + 1 ELSE @]
    /\ modbus' = [modbus EXCEPT ![p] = IF @ # "null" THEN "freed" ELSE @]
    /\ mapping_frees' = [mapping_frees EXCEPT ![p] =
                           IF FreesMapping(mapping[p], delete_mapping[p])
                           THEN @ + 1 ELSE @]

\* ---- main.cpp:378-381 and Client::~Client -------------------------------
Exit(p) ==
    /\ pc[p] = "after"
    /\ exit_code' = [exit_code EXCEPT ![p] = MainReturn(thrown[p], connection_closed[p])]
    /\ ClientDtor(p)
    /\ UNCHANGED <<startVars, timeoutVars>>
    /\ pc' = [pc EXCEPT ![p] = "exited"]
    /\ UNCHANGED <<sharedVars, semaphore, is_acquired, semaphore_error_counter,
                   terminate, connection_closed, signals, reported, thrown,
                   waitres, histVars>>

\* faulty variant: the handler sets the flag and leaves the socket open
SignalNoClose(p) ==
    /\ pc[p] \in {"loop", "receive", "wait", "reply", "post", "catch", "after"}
    /\ UNCHANGED <<startVars, dtorVars, timeoutVars>>
    /\ signals[p] < MaxSignals
    /\ signals' = [signals EXCEPT ![p] = @ + 1]
    /\ terminate' = [terminate EXCEPT ![p] = TRUE]
    /\ UNCHANGED <<sharedVars, semaphore, is_acquired, semaphore_error_counter,
                   pc, connection_closed, closes, exit_code, reported, thrown,
                   waitres, histVars>>

\* ---- main.cpp:34-37: sig_term_handler ------------------------------------
Signal(p) ==
    /\ pc[p] \in {"loop", "receive", "wait", "reply", "post", "catch", "after"}
    /\ UNCHANGED <<startVars, dtorVars, timeoutVars>>
    /\ signals[p] < MaxSignals
    /\ signals' = [signals EXCEPT ![p] = @ + 1]
    /\ closes' = [closes EXCEPT ![p] = @ + 1]
    /\ terminate' = [terminate EXCEPT ![p] = TRUE]
    /\ UNCHANGED <<sharedVars, semaphore, is_acquired, semaphore_error_counter,
                   pc, connection_closed, exit_code, reported, thrown, waitres,
                   histVars>>

\* ---- a cooperating process using the same named semaphore ----------------
ForeignWait ==
    /\ \E p \in Procs : semaphore[p]
    /\ UNCHANGED <<startVars, dtorVars, timeoutVars>>
    /\ ~foreign
    /\ semval > 0
    /\ semval' = semval - 1
    /\ foreign' = TRUE
    /\ UNCHANGED <<semaphore, is_acquired, semaphore_error_counter, pc, mainVars,
                   thrown, waitres, histVars>>

ForeignPost ==
    /\ foreign
    /\ UNCHANGED <<startVars, dtorVars, timeoutVars>>
    /\ semval' = semval + 1
    /\ foreign' = FALSE
    /\ UNCHANGED <<semaphore, is_acquired, semaphore_error_counter, pc, mainVars,
                   thrown, waitres, histVars>>

\* ---- main before the loop: main.cpp:239-362 ------------------------------
\* return code from main before a client exists
ReturnEarly(p, code) ==
    /\ pc' = [pc EXCEPT ![p] = "exited"]
    /\ exit_code' = [exit_code EXCEPT ![p] = code]

\* faulty variant: the check of ai-registers is missing
TooManyRegistersNoAi(b) ==
    b.do > MAX_REGS \/ b.di > MAX_REGS \/ b.ao > MAX_REGS

\* main.cpp:240-258
TooManyRegisters(b) ==
    b.do > MAX_REGS \/ b.di > MAX_REGS \/ b.ao > MAX_REGS \/ b.ai > MAX_REGS

\* main.cpp:239-258: the register counts are checked, exit_usage() if too many
CheckArgs(p) ==
    /\ UNCHANGED timeoutVars
    /\ pc[p] = "args"
    /\ IF TooManyRegisters(bank[p])
       THEN ReturnEarly(p, EX_USAGE)
       ELSE pc' = [pc EXCEPT ![p] = "serial"] /\ UNCHANGED exit_code
    /\ UNCHANGED <<loopVars, semaphore, closes, startVars, dtorVars>>

\* main.cpp:260-305: parity, data bits, stop bits, baud, rs232/rs485 and the
\* permissions are checked
CheckSerial(p) ==
    /\ UNCHANGED timeoutVars
    /\ pc[p] = "serial"
    /\ \E ok \in BOOLEAN :
         IF ok
         THEN pc' = [pc EXCEPT ![p] = "shm"] /\ UNCHANGED exit_code
         ELSE ReturnEarly(p, EX_USAGE)
    /\ UNCHANGED <<loopVars, semaphore, closes, startVars, dtorVars>>

\* main.cpp:307-320: the shared memory mapping is created
CreateShm(p) ==
    /\ UNCHANGED timeoutVars
    /\ pc[p] = "shm"
    /\ \E ok \in BOOLEAN :
         IF ok
         THEN /\ pc' = [pc EXCEPT ![p] = "client"]
              /\ shm' = [shm EXCEPT ![p] = TRUE]
              /\ UNCHANGED exit_code
         ELSE ReturnEarly(p, EX_OSERR) /\ UNCHANGED shm
    /\ UNCHANGED <<loopVars, semaphore, closes, dtorVars, bank, opt_semaphore,
                   mapping_arg, mapping, delete_mapping, connected,
                   enable_calls, enable_succ, enable_error>>

\* ---- Client::Client, Modbus_RTU_Client.cpp:31-88 ------------------------
\* how the constructor ends: the step that throws, or "ok"
ConstructOutcomes(arg) ==
    {"no_device", "new_failed", "slave_failed", "connect_failed", "mode_failed",
     "socket_failed", "ok"}
    \cup (IF arg = "nullptr" THEN {"alloc_failed"} ELSE {})

\* lines 47-60
OwnsMapping(arg) == arg = "nullptr"

\* main.cpp:322-341 with the constructor: a throwing constructor leaves no
\* object, so no destructor runs when main returns
Construct(p) ==
    /\ UNCHANGED timeoutVars
    /\ pc[p] = "client"
    /\ \E o \in ConstructOutcomes(mapping_arg[p]) :
         LET mapped == o \notin {"no_device", "new_failed", "alloc_failed"} IN
         /\ modbus' = [modbus EXCEPT ![p] =
                         CASE o \in {"no_device", "new_failed"} -> "null"
                           [] o = "alloc_failed" -> "freed"
                           [] OTHER -> "alive"]
         /\ mapping' = [mapping EXCEPT ![p] =
                          IF ~mapped THEN "null"
                          ELSE IF OwnsMapping(mapping_arg[p]) THEN "own" ELSE "given"]
         /\ delete_mapping' = [delete_mapping EXCEPT ![p] =
                                 IF mapped THEN OwnsMapping(mapping_arg[p]) ELSE @]
         /\ connected' = [connected EXCEPT ![p] =
                            o \in {"mode_failed", "socket_failed", "ok"}]
         /\ IF o = "ok"
            THEN pc' = [pc EXCEPT ![p] = "debug"] /\ UNCHANGED exit_code
            ELSE ReturnEarly(p, IF o = "no_device" THEN EX_USAGE ELSE EX_SOFTWARE)
    /\ UNCHANGED <<loopVars, semaphore, closes, mapping_frees, bank,
                   opt_semaphore, shm, mapping_arg, enable_calls, enable_succ,
                   enable_error>>

\* return code from main once the client exists: its destructor runs
ReturnWithClient(p, code) ==
    /\ pc' = [pc EXCEPT ![p] = "exited"]
    /\ exit_code' = [exit_code EXCEPT ![p] = code]
    /\ ClientDtor(p)

\* main.cpp:334-337: client->set_debug
SetDebug(p) ==
    /\ UNCHANGED timeoutVars
    /\ pc[p] = "debug"
    /\ \E ok \in BOOLEAN :
         IF ok
         THEN /\ pc' = [pc EXCEPT ![p] = "timeouts"]
              /\ UNCHANGED <<exit_code, closes, dtorVars>>
         ELSE ReturnWithClient(p, EX_SOFTWARE)
    /\ UNCHANGED <<loopVars, semaphore, startVars>>

\* main.cpp:342-352: socket = client->get_socket(), the timeout is set if the
\* option was given: Client::set_response_timeout, lines 170-178, throws if
\* modbus_set_response_timeout refuses the value
SetTimeouts(p) ==
    /\ pc[p] = "timeouts"
    /\ IF opt_timeout[p]
       THEN \E T \in double_to_timeout_t(timeout_arg[p]), ok \in BOOLEAN :
              IF ok
              THEN /\ native' = [native EXCEPT ![p] = <<T>>]
                   /\ pc' = [pc EXCEPT ![p] = "enable"]
                   /\ UNCHANGED <<exit_code, closes, dtorVars>>
              ELSE ReturnWithClient(p, EX_SOFTWARE) /\ UNCHANGED native
       ELSE /\ pc' = [pc EXCEPT ![p] = "enable"]
            /\ UNCHANGED <<exit_code, closes, dtorVars, native>>
    /\ UNCHANGED <<loopVars, semaphore, startVars, opt_timeout, timeout_arg,
                   timeout_got>>

\* a caller reads the timeout back once it is set
GetTimeout(p) ==
    /\ pc[p] = "enable"
    /\ Len(native[p]) = 1
    /\ Len(timeout_got[p]) = 0
    /\ timeout_got' = [timeout_got EXCEPT ![p] = <<get_response_timeout(native[p][1])>>]
    /\ UNCHANGED <<loopVars, semaphore, pc, exit_code, closes, startVars,
                   dtorVars, opt_timeout, timeout_arg, native>>

\* ---- Client::enable_semaphore, Modbus_RTU_Client.cpp:105-109 ------------
\* faulty variant: a second call replaces the semaphore
EnableRejectsNever(sem) == FALSE

\* line 106
EnableRejects(sem) == sem

\* what a call throws: logic_error if a semaphore is set, else nothing, or the
\* system_error of the semaphore that cannot be created
EnableOutcomes(sem) ==
    IF EnableRejects(sem) THEN {"logic_error"} ELSE {"none", "system_error"}

EnableSemaphore(p, res) ==
    /\ enable_calls' = [enable_calls EXCEPT ![p] = @ + 1]
    /\ enable_error' = [enable_error EXCEPT ![p] = res]
    /\ enable_succ' = [enable_succ EXCEPT ![p] = IF res = "none" THEN @ + 1 ELSE @]
    /\ semaphore' = [semaphore EXCEPT ![p] = IF res = "none" THEN TRUE ELSE @]

\* main.cpp:354-362: the semaphore is enabled if --semaphore was given; main
\* catches std::system_error
StartupEnable(p) ==
    /\ UNCHANGED timeoutVars
    /\ pc[p] = "enable"
    /\ IF opt_semaphore[p]
       THEN \E res \in EnableOutcomes(semaphore[p]) :
              /\ EnableSemaphore(p, res)
              /\ IF res = "none"
                 THEN /\ pc' = [pc EXCEPT ![p] = "loop"]
                      /\ UNCHANGED <<exit_code, closes, dtorVars>>
                 ELSE ReturnWithClient(p, EX_SOFTWARE)
       ELSE /\ pc' = [pc EXCEPT ![p] = "loop"]
            /\ UNCHANGED <<exit_code, closes, dtorVars, semaphore, enable_calls,
                           enable_succ, enable_error>>
    /\ UNCHANGED <<loopVars, bank, opt_semaphore, shm, mapping_arg, mapping,
                   delete_mapping, connected>>

\* a caller of the client calls enable_semaphore between two requests and
\* catches what it throws
CallEnable(p) ==
    /\ UNCHANGED timeoutVars
    /\ pc[p] = "loop"
    /\ enable_calls[p] < MaxEnableCalls
    /\ \E res \in EnableOutcomes(semaphore[p]) : EnableSemaphore(p, res)
    /\ UNCHANGED <<loopVars, pc, exit_code, closes, dtorVars, bank,
                   opt_semaphore, shm, mapping_arg, mapping, delete_mapping,
                   connected>>

\* ---- specifications ------------------------------------------------------
Next ==
    \/ \E p \in Procs : LoopHead(p)
    \/ \E p \in Procs : Receive(p, MaxRequests)
    \/ \E p \in Procs : Wait(p)
    \/ \E p \in Procs : Reply(p)
    \/ \E p \in Procs : Post(p)
    \/ \E p \in Procs : Catch(p)
    \/ \E p \in Procs : Exit(p)
    \/ \E p \in Procs : Signal(p)
    \/ ForeignWait
    \/ ForeignPost

Spec == Init /\ [][Next]_vars

NextPair ==
    \/ \E p \in Procs : LoopHead(p)
    \/ \E p \in Procs : Receive(p, MaxPairRequests)
    \/ \E p \in Procs : Wait(p)
    \/ \E p \in Procs : Reply(p)
    \/ \E p \in Procs : Post(p)
    \/ \E p \in Procs : Catch(p)
    \/ \E p \in Procs : Exit(p)

SpecPair == InitPair /\ [][NextPair]_vars

\* One serving process that keeps running.  Only the steps that do not wait
\* for the bus are fair: the loop head, the bounded semaphore wait, the reply,
\* the post, the catch clause, the end of main, and a modbus_receive on a
\* descriptor the signal handler closed, which fails at once.
ReceiveClosed(p) == closes[p] > 0 /\ Receive(p, MaxLiveRequests)

LocalStep(p) ==
    \/ LoopHead(p)
    \/ ReceiveClosed(p)
    \/ Wait(p)
    \/ Reply(p)
    \/ Post(p)
    \/ Catch(p)
    \/ Exit(p)

NextLive ==
    \/ \E p \in Procs : LoopHead(p)
    \/ \E p \in Procs : Receive(p, MaxLiveRequests)
    \/ \E p \in Procs : Wait(p)
    \/ \E p \in Procs : Reply(p)
    \/ \E p \in Procs : Post(p)
    \/ \E p \in Procs : Catch(p)
    \/ \E p \in Procs : Exit(p)
    \/ \E p \in Procs : Signal(p)
    \/ ForeignWait
    \/ ForeignPost

SpecLive == Init /\ [][NextLive]_vars /\ \A p \in Procs : WF_vars(LocalStep(p))

\* main up to its loop
NextStartup ==
    \/ \E p \in Procs : CheckArgs(p)
    \/ \E p \in Procs : CheckSerial(p)
    \/ \E p \in Procs : CreateShm(p)
    \/ \E p \in Procs : Construct(p)
    \/ \E p \in Procs : SetDebug(p)
    \/ \E p \in Procs : SetTimeouts(p)
    \/ \E p \in Procs : StartupEnable(p)

SpecStartup == InitStartup /\ [][NextStartup]_vars

\* the life of one Client: constructed, set up and used as main does, by a
\* caller that may pass no mapping and may call enable_semaphore again
NextClient ==
    \/ \E p \in Procs : Construct(p)
    \/ \E p \in Procs : SetDebug(p)
    \/ \E p \in Procs : SetTimeouts(p)
    \/ \E p \in Procs : StartupEnable(p)
    \/ \E p \in Procs : CallEnable(p)
    \/ \E p \in Procs : LoopHead(p)
    \/ \E p \in Procs : Receive(p, MaxClientRequests)
    \/ \E p \in Procs : Wait(p)
    \/ \E p \in Procs : Reply(p)
    \/ \E p \in Procs : Post(p)
    \/ \E p \in Procs : Catch(p)
    \/ \E p \in Procs : Exit(p)
    \/ ForeignWait
    \/ ForeignPost

SpecClient == InitClient /\ [][NextClient]_vars

\* a timeout is set on a new Client and read back
NextTimeout ==
    \/ \E p \in Procs : Construct(p)
    \/ \E p \in Procs : SetDebug(p)
    \/ \E p \in Procs : SetTimeouts(p)
    \/ \E p \in Procs : GetTimeout(p)

SpecTimeout == InitTimeout /\ [][NextTimeout]_vars

TypeOK ==
    /\ semval \in Nat
    /\ foreign \in BOOLEAN
    /\ pc \in [Procs -> {"args", "serial", "shm", "client", "debug", "timeouts", "enable",
                         "off", "loop", "receive", "wait", "reply", "post",
                         "catch", "after", "exited"}]
    /\ thrown \in [Procs -> {"none", "receive", "semaphore"}]
    /\ waitres \in [Procs -> {"none", "acquired", "timedout"}]
    /\ rc \in [Procs -> ReceiveResults \cup {"none"}]
    /\ modbus \in [Procs -> {"null", "alive", "freed"}]
    /\ mapping \in [Procs -> {"null", "own", "given"}]
    /\ delete_mapping \in [Procs -> BOOLEAN]
    /\ opt_timeout \in [Procs -> BOOLEAN]
    /\ \A p \in Procs :
         /\ Len(native[p]) <= 1 /\ Len(timeout_got[p]) <= 1
         /\ \A i \in 1..Len(native[p]) :
              /\ native[p][i].sec.hi \in 0..(LimbBase - 1)
              /\ native[p][i].sec.lo \in 0..(LimbBase - 1)
              /\ native[p][i].usec.hi \in 0..(LimbBase - 1)
              /\ native[p][i].usec.lo \in 0..(LimbBase - 1)
         /\ \A i \in 1..Len(timeout_got[p]) :
              timeout_got[p][i].frac \in 0..(TicksPerSecond - 1)

\* ==== properties ==========================================================
InReply(p) == pc[p] = "reply"

\* C1 (as stated): two processes with the same semaphore name are never both
\* inside the reply-generation step (modbus_reply) at the same time.
C1_AtMostOneWriter ==
    \A p, q \in Procs : p # q => ~(InReply(p) /\ InReply(q))

\* C1 (amended): at most one process at a time holds the semaphore, so at most
\* one is inside the reply-generation step while holding it; whenever two are
\* inside together, one of them got there after its own wait timed out.
C1_AtMostOneGuardedWriter ==
    \A p, q \in Procs : p # q =>
        /\ ~(is_acquired[p] /\ is_acquired[q])
        /\ (InReply(p) /\ InReply(q) =>
              \E u \in {p, q} : ~is_acquired[u] /\ waitres[u] = "timedout")

C1_Witness ==
    /\ InReply(1) /\ is_acquired[1] /\ waitres[1] = "acquired"
    /\ InReply(2) /\ ~is_acquired[2] /\ waitres[2] = "timedout"

\* C2 (as stated): with a semaphore configured, modbus_reply is only invoked
\* while this process holds the semaphore.
C2_ReplyOnlyUnderGuard ==
    \A p \in Procs : InReply(p) /\ semaphore[p] => is_acquired[p]

\* C2 (amended): with a semaphore configured, modbus_reply is invoked either
\* while this process holds the semaphore or after the wait for this request
\* timed out with the error counter still below the maximum; it is never
\* invoked without a wait for this request.
C2_ReplyGuardedOrTimedOut ==
    \A p \in Procs : InReply(p) /\ semaphore[p] =>
        \/ is_acquired[p] /\ waitres[p] = "acquired"
        \/ /\ ~is_acquired[p]
           /\ waitres[p] = "timedout"
           /\ semaphore_error_counter[p] < SEMAPHORE_ERROR_MAX

C2_Witness ==
    \E p \in Procs :
        /\ InReply(p) /\ semaphore[p] /\ ~is_acquired[p]
        /\ waitres[p] = "timedout"
        /\ foreign

\* C3: the error counter is in 0..1000 in every reachable state, the state in
\* which the exception is thrown included.
C3_CounterInRange ==
    \A p \in Procs :
        semaphore_error_counter[p] \in 0 .. SEMAPHORE_ERROR_MAX

\* C4: a timed-out wait that pushes the counter to the maximum throws without
\* invoking modbus_reply for that request, the loop stops, and afterwards no
\* request is received or served.
C4_FatalIsTerminal ==
    [][\A p \in Procs :
         /\ (/\ timeouts'[p] = timeouts[p] + 1
             /\ semaphore_error_counter'[p] >= SEMAPHORE_ERROR_MAX)
            => /\ thrown'[p] = "semaphore"
               /\ pc'[p] = "catch"
               /\ replies'[p] = replies[p]
         /\ thrown[p] = "semaphore"
            => /\ pc'[p] \in {"catch", "after", "exited"}
               /\ requests'[p] = requests[p]
               /\ replies'[p] = replies[p]
               /\ thrown'[p] = "semaphore"]_vars

C4_Witness ==
    \E p \in Procs :
        /\ thrown[p] = "semaphore"
        /\ pc[p] = "exited"
        /\ replies[p] = requests[p] - 1

\* requests received by p that modbus_reply has not been invoked for
Unserved(p) == requests[p] - replies[p]

\* C5 (as stated): a request whose wait timed out is still served: modbus_reply
\* is invoked for it.
C5_TimeoutStillServed ==
    \A p \in Procs : waitres[p] = "timedout" =>
        Unserved(p) = (IF InReply(p) THEN 1 ELSE 0)

\* C5 (amended): a request whose wait timed out is still served, without the
\* semaphore, unless that timeout pushed the error counter to the maximum.
C5_TimeoutBelowMaxStillServed ==
    \A p \in Procs :
        (waitres[p] = "timedout" /\ semaphore_error_counter[p] < SEMAPHORE_ERROR_MAX)
        => /\ Unserved(p) = (IF InReply(p) THEN 1 ELSE 0)
           /\ ~is_acquired[p]
           /\ pc[p] \in {"reply", "post", "loop", "receive", "after", "exited"}

C5_Witness ==
    \E p \in Procs :
        /\ waitres[p] = "timedout"
        /\ pc[p] = "post"
        /\ timeouts[p] = 1
        /\ replies[p] = 1
        /\ requests[p] = 1

\* C6: with a semaphore and no successful wait so far, the loop ends with the
\* exception exactly on the 100th timed-out request: requests 1..99 are
\* served, the 100th throws, a 101st is never received.
C6_HundredthTimeoutIsFatal ==
    \A p \in Procs : (semaphore[p] /\ acquired[p] = 0) =>
        /\ requests[p] <= 100
        /\ timeouts[p] = (IF pc[p] = "wait" THEN requests[p] - 1 ELSE requests[p])
        /\ (thrown[p] = "semaphore") = (timeouts[p] = 100)
        /\ replies[p] = (IF InReply(p) \/ timeouts[p] = 100
                         THEN timeouts[p] - 1 ELSE timeouts[p])

C6_Witness ==
    \E p \in Procs :
        /\ semaphore[p] /\ acquired[p] = 0
        /\ thrown[p] = "semaphore"
        /\ requests[p] = 100 /\ timeouts[p] = 100 /\ replies[p] = 99
        /\ pc[p] = "exited"

\* C7: a semaphore acquired for a request is posted after modbus_reply whether
\* or not the reply succeeded: the process holds it only between the wait and
\* the post, never once handle_request has returned or thrown, and never when
\* the process has left the loop.
C7_GuardHeldOnlyWhileReplying ==
    \A p \in Procs :
        /\ is_acquired[p] => pc[p] \in {"reply", "post"}
        /\ pc[p] \notin {"reply", "post"} => posts[p] = acquired[p]

C7_Witness ==
    \E p \in Procs :
        /\ pc[p] = "exited" /\ ~is_acquired[p]
        /\ requests[p] = 1 /\ acquired[p] = 1 /\ posts[p] = 1
        /\ reply_failed[p]

\* C8: the semaphore is posted only when held: no post follows a timed-out
\* wait, the posts of a process never outnumber its successful waits, and the
\* value of the semaphore never exceeds 1.
C8_PostOnlyWhenHeld ==
    /\ semval <= SEMAPHORE_INITIAL_VALUE
    /\ \A p \in Procs :
         /\ posts[p] <= acquired[p]
         /\ acquired[p] - posts[p] = (IF is_acquired[p] THEN 1 ELSE 0)

C8_Witness ==
    \E p \in Procs :
        /\ waitres[p] = "timedout" /\ pc[p] = "loop"
        /\ replies[p] = 2 /\ acquired[p] = 1 /\ posts[p] = 1
        /\ semval = 1

\* C9: a process that left the loop on an exception (receive failure or
\* semaphore escalation) with no termination requested exits non-zero.
C9_FatalExitsNonZero ==
    \A p \in Procs :
        (pc[p] = "exited" /\ thrown[p] # "none" /\ ~terminate[p])
        => exit_code[p] # EX_OK

\* C10: when modbus_receive reports ECONNRESET, handle_request returns true
\* without waiting for or posting the semaphore and without changing the error
\* counter; the loop stops, nothing is thrown and the process exits with 0.
C10_PeerClosedIsClean ==
    [][\A p \in Procs :
         /\ (pc[p] = "receive" /\ pc'[p] # "receive" /\ rc'[p] = RC_ECONNRESET)
            => /\ connection_closed'[p]
               /\ pc'[p] = "loop"
               /\ semval' = semval
               /\ is_acquired'[p] = is_acquired[p]
               /\ semaphore_error_counter'[p] = semaphore_error_counter[p]
               /\ acquired'[p] = acquired[p]
               /\ timeouts'[p] = timeouts[p]
               /\ posts'[p] = posts[p]
               /\ replies'[p] = replies[p]
         /\ rc[p] = RC_ECONNRESET
            => /\ connection_closed'[p]
               /\ pc'[p] \in {"loop", "after", "exited"}
               /\ thrown'[p] = "none"
               /\ reported'[p] = 0
               /\ requests'[p] = requests[p]
               /\ replies'[p] = replies[p]
               /\ (pc'[p] = "exited" => exit_code'[p] = EX_OK)]_vars

C10_Witness ==
    \E p \in Procs :
        /\ rc[p] = RC_ECONNRESET /\ connection_closed[p]
        /\ pc[p] = "exited" /\ exit_code[p] = EX_OK
        /\ semaphore[p] /\ semaphore_error_counter[p] > 0
        /\ thrown[p] = "none"

\* C11: every transport failure stops the loop: after a modbus_receive error
\* other than ECONNRESET, and after a failed modbus_reply, no further request
\* is waited for.
C11_TransportFailureStopsLoop ==
    \A p \in Procs :
        /\ rc[p] = RC_ERROR => pc[p] \in {"catch", "after", "exited"}
        /\ reply_failed[p] => pc[p] \in {"post", "loop", "catch", "after", "exited"}

\* C12: the descriptor of the connection is closed at most once in the life
\* of the process, whatever signals arrive.
C12_ClosedAtMostOnce ==
    \A p \in Procs : closes[p] <= 1

C18_CounterTransition ==
    [][\A p \in Procs :
         LET c == semaphore_error_counter[p]
             d == semaphore_error_counter'[p]
         IN  \/ /\ acquired'[p] = acquired[p] + 1
                /\ timeouts'[p] = timeouts[p]
                /\ d = (IF c - 1 > 0 THEN c - 1 ELSE 0)
                /\ thrown'[p] = thrown[p]
             \/ /\ timeouts'[p] = timeouts[p] + 1
                /\ acquired'[p] = acquired[p]
                /\ d = (IF c + 10 < 1000 THEN c + 10 ELSE 1000)
                /\ (thrown'[p] = "semaphore") = (d = 1000)
             \/ /\ acquired'[p] = acquired[p]
                /\ timeouts'[p] = timeouts[p]
                /\ d = c]_vars

\* C19: after the signal handler set terminate and closed the socket the loop
\* ends: the process leaves main, and once the loop head has seen the flag no
\* further handle_request call is started.
C19_CancelEndsLoop ==
    /\ \A p \in Procs : terminate[p] ~> (pc[p] = "exited")
    /\ [][\A p \in Procs :
            (terminate[p] /\ pc[p] = "loop") => pc'[p] \in {"loop", "after"}]_vars

C19_Witness ==
    \E p \in Procs :
        /\ terminate[p] /\ pc[p] = "exited"
        /\ thrown[p] = "receive" /\ rc[p] = RC_ERROR
        /\ requests[p] = 1 /\ replies[p] = 1

\* C20 (as stated): once terminate is set, no semaphore wait is made and
\* modbus_reply is not invoked, also not for a request that was received
\* before the flag was set.
C20_NoWaitNoReplyAfterTerminate ==
    [][\A p \in Procs : terminate[p] =>
         /\ acquired'[p] = acquired[p]
         /\ timeouts'[p] = timeouts[p]
         /\ replies'[p] = replies[p]]_vars

\* C20 (amended): terminate is checked at the loop head only.  Once it is set
\* no further request is received, and the only semaphore wait and
\* modbus_reply still made are those of the request handle_request was
\* already serving when the signal arrived.
C20_OnlyRequestInFlightAfterTerminate ==
    [][\A p \in Procs : terminate[p] =>
         /\ requests'[p] = requests[p]
         /\ (pc[p] = "loop" => pc'[p] \in {"loop", "after"})
         /\ (acquired'[p] + timeouts'[p] # acquired[p] + timeouts[p]
               => pc[p] = "wait" /\ Unserved(p) = 1)
         /\ (replies'[p] # replies[p]
               => pc[p] = "reply" /\ replies'[p] = requests[p])]_vars

C20_Witness ==
    \E p \in Procs :
        /\ terminate[p] /\ signals[p] = 1
        /\ pc[p] = "after"
        /\ requests[p] = 1 /\ replies[p] = 1
        /\ waitres[p] = "timedout" /\ reply_failed[p]
        /\ thrown[p] = "none"

\* C14: on every exit path after the register mapping exists, the mapping is
\* released exactly once if the client owns it and never if it was handed in.
C14_RegionReleasedOnceIfOwned ==
    \A p \in Procs :
        (pc[p] = "exited" /\ mapping[p] # "null")
            => mapping_frees[p] = (IF delete_mapping[p] THEN 1 ELSE 0)

\* the handed-in half of C14: a mapping that was handed in is never released
C14_AttachedNeverReleased ==
    \A p \in Procs : ~delete_mapping[p] => mapping_frees[p] = 0

\* the flag half of C14: once the mapping exists the ownership flag stays
C14_FlagFixed ==
    [][\A p \in Procs : mapping[p] # "null" =>
            delete_mapping'[p] = delete_mapping[p]]_vars

\* some requested register count exceeds 65536
Oversized(p) ==
    \E k \in {"do", "di", "ao", "ai"} : bank[p][k] > MAX_REGS

\* with an oversized count main is still at the check or has returned EX_USAGE,
\* and nothing was created
C15_RejectedBeforeAnything ==
    \A p \in Procs :
        (pc[p] # "off" /\ Oversized(p)) =>
            /\ pc[p] \in {"args", "exited"}
            /\ pc[p] = "exited" => (exit_code[p] = EX_USAGE /\ exit_code[p] # 0)
            /\ ~shm[p]
            /\ modbus[p] = "null"
            /\ mapping[p] = "null"
            /\ ~connected[p]
            /\ requests[p] = 0

\* the check lets counts in [0, 65536] pass and stops all others
C15_CheckStep ==
    \A p \in Procs :
        pc[p] = "args" =>
            pc'[p] = (IF Oversized(p) THEN "exited" ELSE "serial")

\* C15: if any of the four requested register counts exceeds 65536, startup
\* fails with a non-zero usage error before the shared memory is created,
\* before the serial device is opened and before the loop starts; counts in
\* [0, 65536] pass the check.
C15_OversizedBanksRejected ==
    []C15_RejectedBeforeAnything /\ [][C15_CheckStep]_vars

\* only the last checked count is too large, and main has returned
C15_Witness ==
    \E p \in Procs :
        /\ pc[p] = "exited"
        /\ exit_code[p] = EX_USAGE
        /\ bank[p].ai = MAX_REGS + 1
        /\ bank[p].do = MAX_REGS /\ bank[p].di = 0 /\ bank[p].ao = MAX_REGS

\* a call of enable_semaphore on a client whose semaphore is set throws
\* logic_error and changes neither the semaphore nor the error counter
C16_SecondEnableStep ==
    \A p \in Procs :
        (enable_calls'[p] # enable_calls[p] /\ semaphore[p]) =>
            /\ enable_error'[p] = "logic_error"
            /\ enable_succ'[p] = enable_succ[p]
            /\ semaphore'[p] = semaphore[p]
            /\ semval' = semval
            /\ is_acquired'[p] = is_acquired[p]
            /\ semaphore_error_counter'[p] = semaphore_error_counter[p]

\* C16: enabling the semaphore a second time on the same client fails with
\* "semaphore already enabled" and leaves the existing semaphore and the error
\* counter unchanged; enabling succeeds at most once per client.
C16_EnableAtMostOnce ==
    [](\A p \in Procs : enable_succ[p] <= 1) /\ [][C16_SecondEnableStep]_vars

\* a second call was rejected on a client whose error counter is not zero
C16_Witness ==
    \E p \in Procs :
        /\ enable_error[p] = "logic_error"
        /\ enable_calls[p] >= 2
        /\ enable_succ[p] = 1
        /\ semaphore[p]
        /\ semaphore_error_counter[p] > 0

\* a <= b for doubles
LessEq(a, b) ==
    \/ a.hi < b.hi
    \/ a.hi = b.hi /\ a.lo < b.lo
    \/ a.hi = b.hi /\ a.lo = b.lo /\ a.frac <= b.frac

\* the whole second after w
NextSecond(w) ==
    IF w.lo = LimbBase - 1 THEN [hi |-> w.hi + 1, lo |-> 0]
    ELSE [hi |-> w.hi, lo |-> w.lo + 1]

\* a and b differ by less than one microsecond
CloserThanMicro(a, b) ==
    LET small == IF LessEq(a, b) THEN a ELSE b
        large == IF LessEq(a, b) THEN b ELSE a
    IN  \/ Whole(large) = Whole(small) /\ large.frac - small.frac < SubMicro
        \/ /\ Whole(large) = NextSecond(Whole(small))
           /\ large.frac + TicksPerSecond - small.frac < SubMicro

\* the timeout read back is the timeout set, cut to whole microseconds
RoundTripTruncates(x, y) ==
    /\ CloserThanMicro(y, x)
    /\ LessEq(y, x)
    /\ x.frac % SubMicro = 0 => y = x

C21_ReceivedRequestIsServed ==
    /\ \A p \in Procs : (pc[p] = "wait") ~> (pc[p] \in {"reply", "catch"})
    /\ \A p \in Procs :
         (Unserved(p) > 0) ~> (Unserved(p) = 0 \/ thrown[p] = "semaphore")

\* the wait timed out while another process held the semaphore, and the
\* request was answered
C21_Witness ==
    \E p \in Procs :
        /\ foreign /\ semval = 0
        /\ waitres[p] = "timedout"
        /\ pc[p] = "post"
        /\ Unserved(p) = 0 /\ requests[p] > 0

\* C22: the time limit passed to the semaphore wait is 100 milliseconds
\* (100,000,000 nanoseconds), as the warning of line 121 says.
C22_WaitLimitIs100ms ==
    \A p \in Procs :
        (timeouts[p] + acquired[p] > 0) => wait_limit[p] = 100000000

\* T is x cut to whole microseconds: the whole seconds of x, and the
\* microseconds of its fraction, in [0, 999999] and never rounded up
IsTruncationOf(T, x) ==
    /\ T.sec = Whole(x)
    /\ T.usec.hi < 16
    /\ LET usec == T.usec.hi * LimbBase + T.usec.lo IN
       /\ usec <= MicrosPerSecond - 1
       /\ usec * SubMicro <= x.frac
       /\ x.frac < (usec + 1) * SubMicro

C24_NoFatalBelowHundredTimeouts ==
    \A p \in Procs :
        /\ semaphore_error_counter[p] <= SEMAPHORE_ERROR_INC * timeouts[p]
        /\ thrown[p] = "semaphore" =>
              timeouts[p] * SEMAPHORE_ERROR_INC >= SEMAPHORE_ERROR_MAX

\* acquisitions between the timeouts put the exception off to the 101st timeout
C24_Witness ==
    \E p \in Procs :
        /\ thrown[p] = "semaphore"
        /\ timeouts[p] = 101
        /\ acquired[p] >= 1
        /\ semaphore_error_counter[p] < SEMAPHORE_ERROR_INC * timeouts[p]

\* the step in which modbus_receive returns 0
ReceivedNothing(p) ==
    pc[p] = "receive" /\ pc'[p] # "receive" /\ rc'[p] = RC_IGNORED

\* C25: when modbus_receive returns 0, handle_request returns false and leaves
\* everything else as it was: the semaphore is neither waited on nor posted,
\* the error counter keeps its value, and modbus_reply is not called.
C25_NoReplyDueChangesNothing ==
    [][\A p \in Procs : ReceivedNothing(p) =>
          /\ pc'[p] = "loop"
          /\ connection_closed'[p] = FALSE
          /\ thrown'[p] = thrown[p]
          /\ semval' = semval
          /\ is_acquired' = is_acquired
          /\ semaphore_error_counter' = semaphore_error_counter
          /\ timeouts' = timeouts /\ acquired' = acquired
          /\ posts' = posts
          /\ replies' = replies /\ requests' = requests
          /\ reply_failed' = reply_failed]_vars

\* modbus_receive returned 0 on a client whose error counter is not zero
C25_Witness ==
    \E p \in Procs :
        /\ rc[p] = RC_IGNORED
        /\ pc[p] = "loop"
        /\ semaphore[p] /\ ~is_acquired[p]
        /\ semaphore_error_counter[p] > 0
        /\ ~connection_closed[p]

====
